---- MODULE Spec2Model ----
(***************************************************************************)
(* Michi-Strobo: the microphone feature extractor (hook useAudioAnalyzer)  *)
(* and the canvas renderer (component Visualizer).                         *)
(*                                                                         *)
(* Four specifications share this module:                                  *)
(*   Spec      the capture lifecycle: start / stop / update, driven by the *)
(*             isActive flag, the getUserMedia promise and the browser's   *)
(*             requestAnimationFrame queue;                                *)
(*   SpecFeat  the feature reduction of update() as a pure function of     *)
(*             the analyser's frequency buffer;                            *)
(*   SpecVis   the Visualizer's effect, render loop and cleanup;           *)
(*   SpecCubic the Visualizer held in cubic mode on a canvas of fixed size.*)
(*                                                                         *)
(* Fractions are exact: a value n/d is the pair <<n, d>> with d > 0.  The  *)
(* thresholds 0.15, 0.35, 0.5, 0.8 are 3/20, 7/20, 1/2, 4/5.               *)
(***************************************************************************)
EXTENDS Integers, Sequences, FiniteSets, TLC

VARIABLES
    cap,          \* the hook instance and the browser objects it owns
    isActive,     \* the isActive argument of the last hook render
    hookMounted,  \* "init" | "mounted" | "unmounted"
    lastOp,       \* history: the last operation that ran
    everGranted,  \* history: some getUserMedia call has resolved
    everDenied,   \* history: some getUserMedia call has been rejected
    buf,          \* SpecFeat: the frequency buffer handed to update()
    snap,         \* SpecFeat: what update() published for buf
    vis           \* SpecVis: the Visualizer instance and its canvas

vars == <<cap, isActive, hookMounted, lastOp, everGranted, everDenied, buf, snap, vis>>

capVars == <<cap, isActive, hookMounted, lastOp, everGranted, everDenied>>
featVars == <<buf, snap>>
visVars == <<vis>>

(***************************************************************************)
(* Bounds of the model.                                                    *)
(***************************************************************************)
MaxCalls == 3      \* getUserMedia calls in one behaviour
MaxLen == 6        \* longest exhaustively enumerated frequency buffer

(***************************************************************************)
(* Program constants.                                                      *)
(***************************************************************************)
fftSize == 256
ByteMax == 255

frequencyBinCount == fftSize \div 2

Null == 0
NoData == <<>>

(***************************************************************************)
(* Exact fractions.                                                        *)
(***************************************************************************)
RECURSIVE GCD(_, _)
GCD(a, b) == IF b = 0 THEN a ELSE GCD(b, a % b)

\* A fraction in lowest terms (comparisons reduce first, to keep the cross
\* products small).
Norm(a) == LET g == GCD(a[1], a[2]) IN <<a[1] \div g, a[2] \div g>>

RatLE(a, b) == Norm(a)[1] * Norm(b)[2] <= Norm(b)[1] * Norm(a)[2]
RatLT(a, b) == Norm(a)[1] * Norm(b)[2] < Norm(b)[1] * Norm(a)[2]
RatEQ(a, b) == Norm(a) = Norm(b)
RatMin(a, b) == IF RatLE(a, b) THEN a ELSE b
Zero == <<0, 1>>
One == <<1, 1>>
InUnit(a) == RatLE(Zero, a) /\ RatLE(a, One)

(***************************************************************************)
(* update(): the reduction loop over the frequency buffer.  Index i is the *)
(* code's 0-based index, data[i + 1] the element.  i < data.length * 0.15  *)
(* is 20 i < 3 N and i < data.length * 0.5 is 2 i < N.                     *)
(***************************************************************************)
\* (a variant of InBass that truncates the bound before comparing)
InBassTruncated(i, n) == i < (3 * n) \div 20

InBass(i, n) == 20 * i < 3 * n
InMid(i, n) == ~InBass(i, n) /\ 2 * i < n

\* (a variant of LoopStep whose mid branch is not an else of the bass branch)
LoopStepNoElse(acc, i, d, n) ==
    LET withVol == [acc EXCEPT !.volume = @ + d]
        withBass == IF InBass(i, n) /\ d > acc.bass
                    THEN [withVol EXCEPT !.bass = d] ELSE withVol
    IN  IF 2 * i < n
        THEN [withBass EXCEPT !.mid = @ + d]
        ELSE [withBass EXCEPT !.treble = @ + d]

LoopStep(acc, i, d, n) ==
    LET withVol == [acc EXCEPT !.volume = @ + d]
    IN  IF InBass(i, n)
        THEN IF d > acc.bass THEN [withVol EXCEPT !.bass = d] ELSE withVol
        ELSE IF InMid(i, n)
             THEN [withVol EXCEPT !.mid = @ + d]
             ELSE [withVol EXCEPT !.treble = @ + d]

\* The loop body applied to indices lo .. hi - 1 in increasing order, acc
\* carried from each index to the next.  The range is halved, and the left
\* half's result is read before the right half starts, only to keep the
\* evaluation shallow; the order of the iterations is the code's.
RECURSIVE Loop(_, _, _, _)
Loop(data, lo, hi, acc) ==
    IF hi <= lo THEN acc
    ELSE IF hi = lo + 1 THEN LoopStep(acc, lo, data[lo + 1], Len(data))
    ELSE LET m == (lo + hi) \div 2
             left == Loop(data, lo, m, acc)
         IN  IF left.volume >= 0 THEN Loop(data, m, hi, left) ELSE left

\* (a variant of Features that divides mid by the number of bins summed)
FeaturesActualWidth(data, time) ==
    LET acc == Loop(data, 0, Len(data), [volume |-> 0, bass |-> 0, mid |-> 0, treble |-> 0])
        count == Len(data)
        summed == Cardinality({ i \in 0..(count - 1) : InMid(i, count) })
    IN  [volume |-> <<acc.volume, count * ByteMax>>,
         bass |-> <<acc.bass, ByteMax>>,
         mid |-> IF summed = 0 THEN Zero ELSE <<acc.mid, summed * ByteMax>>,
         treble |-> <<acc.treble * 2, count * ByteMax>>,
         frequencyData |-> data,
         timeData |-> time]

\* The snapshot update() hands to setAudioData.
Features(data, time) ==
    LET acc == Loop(data, 0, Len(data), [volume |-> 0, bass |-> 0, mid |-> 0, treble |-> 0])
        count == Len(data)
    IN  [volume |-> <<acc.volume, count * ByteMax>>,
         bass |-> <<acc.bass, ByteMax>>,
         mid |-> <<acc.mid * 20, count * 7 * ByteMax>>,
         treble |-> <<acc.treble * 2, count * ByteMax>>,
         frequencyData |-> data,
         timeData |-> time]

(***************************************************************************)
(* Buffers.                                                                *)
(***************************************************************************)
Const(n, v) == [i \in 1..n |-> v]
Spike(n, k, v) == [i \in 1..n |-> IF i = k + 1 THEN v ELSE 0]

\* What the analyser can return on a tick of the lifecycle model.
AnalyserFrames ==
    { [freq |-> Const(frequencyBinCount, 0), time |-> Const(frequencyBinCount, 128)],
      [freq |-> Const(frequencyBinCount, ByteMax), time |-> Const(frequencyBinCount, 128)] }

(***************************************************************************)
(* The capture lifecycle.  cap holds the hook's state and refs and the     *)
(* browser objects they point to; a session object is named by the number *)
(* of the getUserMedia call that produced its stream.                      *)
(***************************************************************************)
CapInit ==
    [audioData |-> NoData,
     audioContextRef |-> Null,
     analyzerRef |-> Null,
     dataArrayRef |-> NoData,
     timeArrayRef |-> NoData,
     sourceRef |-> Null,
     animationFrameRef |-> Null,
     rafQueue |-> {},        \* scheduled update callbacks (request ids)
     liveStreams |-> {},     \* microphone streams whose tracks are live
     openContexts |-> {},    \* audio contexts not closed
     pending |-> {},         \* getUserMedia calls awaiting the user
     calls |-> 0,            \* getUserMedia calls made so far
     escaped |-> FALSE]      \* an exception left start or stop

\* setAudioData: React drops a state update of an unmounted component.
setAudioData(c, v, live) == IF live THEN [c EXCEPT !.audioData = v] ELSE c

\* requestAnimationFrame returns an id no scheduled request has; ids are only
\* ever compared for equality, so the least free one stands for it.
FreshRaf(c) ==
    CHOOSE r \in 1..(Cardinality(c.rafQueue) + 2) :
        r \notin c.rafQueue /\ r # c.animationFrameRef

\* update: one run of the tick callback with the analyser returning f.
update(c, f, live) ==
    IF c.analyzerRef = Null \/ c.dataArrayRef = NoData \/ c.timeArrayRef = NoData
    THEN c
    ELSE LET filled == [c EXCEPT !.dataArrayRef = f.freq, !.timeArrayRef = f.time]
             shown == setAudioData(filled, Features(f.freq, f.time), live)
             r == FreshRaf(shown)
         IN  [shown EXCEPT !.animationFrameRef = r, !.rafQueue = @ \cup {r}]

\* start, up to the await: the guard and the getUserMedia call.
start(c) ==
    IF c.audioContextRef # Null THEN c
    ELSE [c EXCEPT !.calls = @ + 1, !.pending = @ \cup {c.calls + 1}]

\* start, after the await resolved with the stream of call id.
startResolved(c, id, f, live) ==
    LET made == [c EXCEPT !.pending = @ \ {id},
                          !.liveStreams = @ \cup {id},
                          !.openContexts = @ \cup {id},
                          !.audioContextRef = id,
                          !.analyzerRef = id,
                          !.sourceRef = id,
                          !.dataArrayRef = Const(frequencyBinCount, 0),
                          !.timeArrayRef = Const(frequencyBinCount, 0)]
    IN  update(made, f, live)

\* start, after the await rejected: the catch block logs and returns.
startRejectedLeaky(c, id) ==
    [c EXCEPT !.pending = @ \ {id}, !.audioContextRef = id, !.openContexts = @ \cup {id}]

startRejected(c, id) == [c EXCEPT !.pending = @ \ {id}]

stop(c, live) ==
    LET c1 == IF c.animationFrameRef # Null
              THEN [c EXCEPT !.rafQueue = @ \ {c.animationFrameRef},
                             !.animationFrameRef = Null]
              ELSE c
        c2 == IF c1.audioContextRef # Null
              THEN [c1 EXCEPT !.openContexts = @ \ {c1.audioContextRef},
                              !.audioContextRef = Null]
              ELSE c1
        c3 == IF c2.sourceRef # Null
              THEN [c2 EXCEPT !.liveStreams = @ \ {c2.sourceRef},
                              !.sourceRef = Null]
              ELSE c2
        c4 == [c3 EXCEPT !.analyzerRef = Null,
                         !.dataArrayRef = NoData,
                         !.timeArrayRef = NoData]
    IN  setAudioData(c4, NoData, live)

\* The effect body of the hook for flag value b.
effect(c, b) == IF b THEN start(c) ELSE stop(c, TRUE)

\* The hook is rendered for the first time with flag b; its effect runs.
Mount(b) ==
    /\ hookMounted = "init"
    /\ hookMounted' = "mounted"
    /\ isActive' = b
    /\ cap' = effect(cap, b)
    /\ lastOp' = IF b THEN "start" ELSE "stop"
    /\ UNCHANGED <<everGranted, everDenied>>
    /\ UNCHANGED <<featVars, visVars>>

\* isActive changes: the previous effect's cleanup, then the new effect.
Toggle ==
    /\ hookMounted = "mounted"
    /\ isActive \/ cap.calls < MaxCalls
    /\ isActive' = ~isActive
    /\ cap' = effect(stop(cap, TRUE), ~isActive)
    /\ lastOp' = IF ~isActive THEN "start" ELSE "stop"
    /\ UNCHANGED <<hookMounted, everGranted, everDenied>>
    /\ UNCHANGED <<featVars, visVars>>

\* The hook is disposed: the effect's cleanup runs, the state is dropped.
Unmount ==
    /\ hookMounted = "mounted"
    /\ hookMounted' = "unmounted"
    /\ cap' = stop(cap, TRUE)
    /\ lastOp' = "stop"
    /\ UNCHANGED <<isActive, everGranted, everDenied>>
    /\ UNCHANGED <<featVars, visVars>>

\* The user grants the microphone to getUserMedia call id.
Grant(id, f) ==
    /\ id \in cap.pending
    /\ cap' = startResolved(cap, id, f, hookMounted = "mounted")
    /\ lastOp' = "grant"
    /\ everGranted' = TRUE
    /\ UNCHANGED <<isActive, hookMounted, everDenied>>
    /\ UNCHANGED <<featVars, visVars>>

\* getUserMedia call id is rejected: permission denied or no device.
Deny(id) ==
    /\ id \in cap.pending
    /\ cap' = startRejected(cap, id)
    /\ lastOp' = "deny"
    /\ everDenied' = TRUE
    /\ UNCHANGED <<isActive, hookMounted, everGranted>>
    /\ UNCHANGED <<featVars, visVars>>

\* The browser runs the scheduled callback r.
Tick(r, f) ==
    /\ r \in cap.rafQueue
    /\ cap' = update([cap EXCEPT !.rafQueue = @ \ {r}], f, hookMounted = "mounted")
    /\ lastOp' = "tick"
    /\ UNCHANGED <<isActive, hookMounted, everGranted, everDenied>>
    /\ UNCHANGED <<featVars, visVars>>

Init ==
    /\ cap = CapInit
    /\ isActive = FALSE
    /\ hookMounted = "init"
    /\ lastOp = "none"
    /\ everGranted = FALSE
    /\ everDenied = FALSE
    /\ buf = NoData
    /\ snap = NoData
    /\ vis = NoData

Next ==
    \/ \E b \in BOOLEAN : Mount(b)
    \/ Toggle
    \/ Unmount
    \/ \E id \in cap.pending, f \in AnalyserFrames : Grant(id, f)
    \/ \E id \in cap.pending : Deny(id)
    \/ \E r \in cap.rafQueue, f \in AnalyserFrames : Tick(r, f)

Spec == Init /\ [][Next]_vars

TypeCap ==
    /\ cap.calls \in 0..MaxCalls
    /\ cap.pending \subseteq 1..MaxCalls
    /\ cap.animationFrameRef # Null => cap.animationFrameRef \in cap.rafQueue

(***************************************************************************)
(* Claims about the capture lifecycle (specification Spec).                *)
(***************************************************************************)
\* The flag's last transition asked for deactivation, or the hook is disposed.
Deactivated == ~(hookMounted = "mounted" /\ isActive)

RefsNull(c) ==
    /\ c.audioContextRef = Null
    /\ c.analyzerRef = Null
    /\ c.sourceRef = Null
    /\ c.dataArrayRef = NoData
    /\ c.timeArrayRef = NoData
    /\ c.animationFrameRef = Null

\* Everything of a session: the refs, the snapshot, the browser objects.
SessionOf(c) ==
    <<c.audioData, c.audioContextRef, c.analyzerRef, c.sourceRef, c.dataArrayRef,
      c.timeArrayRef, c.animationFrameRef, c.rafQueue, c.liveStreams, c.openContexts>>

\* C1: once deactivation has run (from any state) and until the next activation
\* request, no tick is scheduled, no snapshot is published and no microphone
\* stream or audio context is open; a grant that arrives after the stop creates
\* no session.
C1_StopLeavesNothing ==
    Deactivated =>
        /\ cap.rafQueue = {}
        /\ cap.audioData = NoData
        /\ cap.liveStreams = {}
        /\ cap.openContexts = {}
        /\ RefsNull(cap)

\* C2: at most one capture session (open stream, audio context, tick loop)
\* exists at any time, whatever the flag transitions, grants and denials.
C2_AtMostOneSession ==
    /\ Cardinality(cap.liveStreams) <= 1
    /\ Cardinality(cap.openContexts) <= 1
    /\ Cardinality(cap.rafQueue) <= 1

\* C3: a rejected getUserMedia leaves the extractor exactly as it was (no
\* context, analyser, source, buffers, scheduled tick or open handle), lets no
\* exception escape, publishes nothing as long as no call was granted, and a
\* deactivation that follows it changes nothing.
C3_DeniedLeavesNoSession ==
    [][ /\ lastOp' = "deny" =>
            SessionOf(cap') = SessionOf(cap) /\ ~cap'.escaped
        /\ ~everGranted' =>
            SessionOf(cap') = SessionOf(CapInit) /\ ~cap'.escaped
        /\ (lastOp = "deny" /\ ~everGranted /\ lastOp' = "stop") =>
            SessionOf(cap') = SessionOf(cap) /\ ~cap'.escaped ]_vars

\* A deactivation has run after the only activation request was denied.
C3_Witness ==
    /\ lastOp = "stop"
    /\ everDenied /\ ~everGranted
    /\ cap.calls = 1 /\ cap.pending = {}

\* C4: from every state, stop twice ends where stop once ends: every session
\* reference null, no tick scheduled, no snapshot published, no error.
C4_StopIdempotent ==
    LET once == stop(cap, hookMounted = "mounted")
        twice == stop(once, hookMounted = "mounted")
    IN  /\ twice = once
        /\ RefsNull(once)
        /\ once.rafQueue = {}
        /\ once.audioData = NoData
        /\ ~once.escaped

\* The relational half of C4 alone: a second stop changes nothing.
StopTwiceIsStopOnce ==
    LET once == stop(cap, hookMounted = "mounted")
    IN  stop(once, hookMounted = "mounted") = once /\ RefsNull(once)

(***************************************************************************)
(* SpecFeat: update()'s reduction as a function of the frequency buffer.   *)
(* The program's analyser always has frequencyBinCount = 128 bins; the     *)
(* loop itself is written for any data.length, so the inputs are every     *)
(* buffer of 1 .. MaxLen bins over ByteVals, and constant and single-spike *)
(* buffers of the lengths in LongLens.                                     *)
(***************************************************************************)
ByteVals == {0, 128, ByteMax}
LongLens == {8, 16, 32, 64, frequencyBinCount}

FeatInputs ==
    UNION { [1..n -> ByteVals] : n \in 1..MaxLen }
    \cup { Const(n, v) : n \in LongLens, v \in ByteVals }
    \cup UNION { { Spike(n, k, v) : k \in 0..(n - 1) } : n \in LongLens, v \in {128, ByteMax} }

FeatInit ==
    /\ buf \in FeatInputs
    /\ snap = NoData
    /\ cap = CapInit
    /\ isActive = FALSE
    /\ hookMounted = "init"
    /\ lastOp = "none"
    /\ everGranted = FALSE
    /\ everDenied = FALSE
    /\ vis = NoData

\* One tick over buf: the snapshot update() publishes.
FeatTick ==
    /\ snap = NoData
    /\ snap' = Features(buf, Const(Len(buf), 128))
    /\ UNCHANGED <<buf, capVars, visVars>>

FeatNext == FeatTick

SpecFeat == FeatInit /\ [][FeatNext]_vars

(***************************************************************************)
(* Claims about the features (specification SpecFeat).                     *)
(***************************************************************************)
SetMax(S) == IF S = {} THEN 0 ELSE CHOOSE m \in S : \A x \in S : x <= m
CeilDiv(a, b) == (a + b - 1) \div b
IsPow2(n) == n \in {1, 2, 4, 8, 16, 32, 64, 128, 256}

\* The peak of the bins with index 0 .. k - 1.
PeakBelow(data, k) == SetMax({ data[i + 1] : i \in 0..(k - 1) })

OnlySpikeAtZero(data) == \A i \in 2..Len(data) : data[i] = 0

\* C5 as stated: bass is the peak over exactly the indices below floor(0.15 N).
C5_BassPeakFloor ==
    snap # NoData =>
        RatEQ(snap.bass, <<PeakBelow(buf, (3 * Len(buf)) \div 20), ByteMax>>)

\* C5, amended: bass is the peak over exactly the indices i < 0.15 N, that is
\* 0 <= i < ceil(0.15 N); a lone spike at index 0 gives bass = spike / 255.
C5_BassPeakCeil ==
    snap # NoData =>
        /\ RatEQ(snap.bass, <<PeakBelow(buf, CeilDiv(3 * Len(buf), 20)), ByteMax>>)
        /\ OnlySpikeAtZero(buf) => RatEQ(snap.bass, <<buf[1], ByteMax>>)

\* A 128-bin buffer whose only energy is at index 19 = floor(0.15 * 128).
C5_Witness ==
    /\ snap # NoData
    /\ buf = Spike(frequencyBinCount, 19, ByteMax)
    /\ RatEQ(snap.bass, One)

\* The number of indices the loop sends to mid and to treble.
MidCount(n) == Cardinality({ i \in 0..(n - 1) : 20 * i >= 3 * n /\ 2 * i < n })
TrebleCount(n) == Cardinality({ i \in 0..(n - 1) : 2 * i >= n })
IsConst(data) == \A i \in 1..Len(data) : data[i] = data[1]

\* C6 as stated: 128 bins of 255 publish volume = bass = mid = treble = 1.
C6_AllOnes ==
    (snap # NoData /\ buf = Const(frequencyBinCount, ByteMax)) =>
        /\ RatEQ(snap.volume, One)
        /\ RatEQ(snap.bass, One)
        /\ RatEQ(snap.mid, One)
        /\ RatEQ(snap.treble, One)

\* C6, amended: 128 bins of 255 publish volume = bass = treble = 1 and
\* mid = 44 / 44.8 = 55/56; for every constant buffer mid and treble are the
\* band sums over the nominal widths 0.35 N and 0.5 N, over 255.
C6_NominalDivisors ==
    snap # NoData =>
        /\ buf = Const(frequencyBinCount, ByteMax) =>
              /\ RatEQ(snap.volume, One)
              /\ RatEQ(snap.bass, One)
              /\ RatEQ(snap.mid, <<55, 56>>)
              /\ RatEQ(snap.treble, One)
        /\ IsConst(buf) =>
              /\ RatEQ(snap.mid, <<MidCount(Len(buf)) * buf[1] * 20, 7 * Len(buf) * ByteMax>>)
              /\ RatEQ(snap.treble, <<TrebleCount(Len(buf)) * buf[1] * 2, Len(buf) * ByteMax>>)

C6_Witness ==
    /\ snap # NoData
    /\ buf = Const(frequencyBinCount, ByteMax)
    /\ RatLT(snap.mid, One)

NumParticles == 45
GlitchLines == 8
MaxMoves == 1      \* cubic-mode integration steps in one behaviour
MaxSeed == 2       \* outcomes of the Math.random sequence of one spawn

modernHues == <<260, 180, 320, 20, 200>>
Modes == {"pure", "cubic", "waves"}
Sensitivities == {5, 8, 10, 30}          \* the slider value, in tenths
WindowSizes == {<<20, 12>>, <<32, 18>>}  \* window.innerWidth, innerHeight
Clock == {0, 900}                        \* Date.now()

PosUnit == ByteMax * 10
RotUnit == frequencyBinCount * ByteMax * 10

\* The snapshots the hook can hand over (NoData: none).
VisSnapshots ==
    { Features(Const(frequencyBinCount, v), Const(frequencyBinCount, 128)) : v \in {0, ByteMax} }

\* Math.min(1, raw * sensitivity), the sensitivity g in tenths.
Scaled(raw, g) == RatMin(One, Norm(<<Norm(raw)[1] * g, Norm(raw)[2] * 10>>))

\* The fraction r as a whole number of 1/u.
Units(r, u) == Norm(r)[1] * (u \div Norm(r)[2])

VisInit0 ==
    [mounted |-> "init",
     audioData |-> NoData,
     mode |-> "pure",
     sensitivity |-> 10,
     win |-> <<20, 12>>,
     width |-> 0,
     height |-> 0,
     particles |-> <<>>,
     animationFrameId |-> Null,
     rafQueue |-> {},
     resize |-> Null,             \* the resize closure of the current effect
     resizeListeners |-> {},
     frame |-> [kind |-> "none"],
     moves |-> 0,
     spawns |-> 0,                \* history: particle arrays created
     leftCubic |-> FALSE]         \* history: cubic mode was left with particles alive

\* One particle of a spawn: the i-th draws of the random sequence seed.
Particle(seed, i, w, h) ==
    [x |-> ((seed * 7 + i * 13) % w) * PosUnit,
     y |-> ((seed * 5 + i * 11) % h) * PosUnit,
     size |-> 15 + ((seed + i * 3) % 35),
     vx |-> ((seed + i) % 6) - 3,
     vy |-> ((seed + i * 2) % 6) - 3,
     color |-> modernHues[((seed + i) % 5) + 1],
     rotation |-> ((seed + i) % 4) * RotUnit,
     rv |-> ((seed * 3 + i) % 3) - 1,
     born |-> seed]

\* canvas.width = window.innerWidth (assigning the size clears the canvas).
resize(v) ==
    [v EXCEPT !.width = v.win[1], !.height = v.win[2], !.frame = [kind |-> "cleared"]]

\* (a variant of initParticles that spawns on every entry into cubic mode)
initParticlesAlways(v, seed) ==
    IF v.mode = "cubic"
    THEN [v EXCEPT !.particles = [i \in 1..NumParticles |-> Particle(seed, i, v.width, v.height)],
                   !.spawns = @ + 1]
    ELSE v

initParticles(v, seed) ==
    IF v.mode = "cubic" /\ Len(v.particles) = 0
    THEN [v EXCEPT !.particles = [i \in 1..NumParticles |-> Particle(seed, i, v.width, v.height)],
                   !.spawns = @ + 1]
    ELSE v

\* animationFrameId = requestAnimationFrame(render).  The id is one no pending
\* request has (ids are only compared for equality).
requestFrame(v) ==
    LET r == CHOOSE q \in 1..(Cardinality(v.rafQueue) + 1) : q \notin v.rafQueue
    IN  [v EXCEPT !.animationFrameId = r, !.rafQueue = @ \cup {r}]

\* (a variant of renderPure whose flash also waits for the heavy-hit threshold)
renderPureOneThreshold(v, now) ==
    LET volume == Scaled(v.audioData.volume, v.sensitivity)
        bass == Scaled(v.audioData.bass, v.sensitivity)
    IN  [kind |-> "pure",
         fade |-> <<1, 4>>,
         wash |-> Norm(<<volume[1], volume[2] * 10>>),
         flash |-> RatLT(<<4, 5>>, bass),
         hue |-> IF RatLT(<<4, 5>>, bass) THEN (now \div 5) % 360 ELSE 0,
         lines |-> IF RatLT(<<4, 5>>, bass) THEN GlitchLines ELSE 0]

renderPure(v, now) ==
    LET volume == Scaled(v.audioData.volume, v.sensitivity)
        bass == Scaled(v.audioData.bass, v.sensitivity)
    IN  [kind |-> "pure",
         fade |-> <<1, 4>>,
         wash |-> Norm(<<volume[1], volume[2] * 10>>),
         flash |-> RatLT(<<1, 2>>, bass),
         hue |-> IF RatLT(<<1, 2>>, bass) THEN (now \div 5) % 360 ELSE 0,
         lines |-> IF RatLT(<<1, 2>>, bass) /\ RatLT(<<4, 5>>, bass) THEN GlitchLines ELSE 0]

\* One particle's step of the forEach body.
moveParticle(p, bass, treble, w, h) ==
    LET x == p.x + p.vx * (PosUnit + 8 * Units(bass, PosUnit))
        y == p.y + p.vy * (PosUnit + 8 * Units(bass, PosUnit))
        rotation == p.rotation + p.rv * (RotUnit + 5 * Units(treble, RotUnit))
    IN  [p EXCEPT !.x = x, !.y = y, !.rotation = rotation,
                  !.vx = IF x < 0 \/ x > w * PosUnit THEN -p.vx ELSE p.vx,
                  !.vy = IF y < 0 \/ y > h * PosUnit THEN -p.vy ELSE p.vy]

renderCubic(v) ==
    LET bass == Scaled(v.audioData.bass, v.sensitivity)
        treble == Scaled(v.audioData.treble, v.sensitivity)
    IN  [v EXCEPT !.particles = [i \in DOMAIN v.particles |->
                                    moveParticle(v.particles[i], bass, treble, v.width, v.height)],
                  !.moves = @ + 1,
                  !.frame = [kind |-> "cubic",
                             fade |-> <<1, 5>>,
                             squares |-> Len(v.particles),
                             scale |-> Norm(<<2 * bass[2] + 3 * bass[1], 2 * bass[2]>>)]]

renderWaves(v) ==
    LET volume == Scaled(v.audioData.volume, v.sensitivity)
        bass == Scaled(v.audioData.bass, v.sensitivity)
    IN  [kind |-> "waves",
         fade |-> <<3, 25>>,
         ribbons |-> Len(modernHues),
         points |-> Len(v.audioData.frequencyData) \div 2,
         radius |-> Norm(<<50 * bass[2] + 150 * bass[1], bass[2]>>)]

\* render: one frame, then the request for the next.
render(v, now) ==
    IF v.audioData = NoData
    THEN requestFrame([v EXCEPT !.frame = [kind |-> "black"]])
    ELSE requestFrame(
            IF v.mode = "pure" THEN [v EXCEPT !.frame = renderPure(v, now)]
            ELSE IF v.mode = "cubic" THEN renderCubic(v)
            ELSE [v EXCEPT !.frame = renderWaves(v)])

\* The effect body: listener, resize, particle initialisation, first render.
setup(v, seed, now) ==
    LET l == CHOOSE q \in 1..(Cardinality(v.resizeListeners) + 1) : q \notin v.resizeListeners
        listening == [v EXCEPT !.resize = l, !.resizeListeners = @ \cup {l}]
    IN  render(initParticles(resize(listening), seed), now)

\* (a variant of cleanup that forgets to cancel the pending request)
cleanupNoCancel(v) ==
    [v EXCEPT !.resizeListeners = @ \ {v.resize}]

\* The function the effect returns.
cleanup(v) ==
    [v EXCEPT !.resizeListeners = @ \ {v.resize},
              !.rafQueue = @ \ {v.animationFrameId}]

\* A render in cubic mode with a snapshot integrates the particles.
Moves(a, m) == a # NoData /\ m = "cubic"

\* The props of a React render, with the history of leaving cubic mode.
withProps(v, a, m, g) ==
    [v EXCEPT !.audioData = a, !.mode = m, !.sensitivity = g,
              !.leftCubic = @ \/ (v.mode = "cubic" /\ m # "cubic" /\ Len(v.particles) > 0)]

\* The component is rendered for the first time; its effect runs.
VisMount(a, m, g, seed, now) ==
    /\ vis.mounted = "init"
    /\ vis' = [setup(withProps(vis, a, m, g), seed, now) EXCEPT !.mounted = "mounted"]
    /\ UNCHANGED <<capVars, featVars>>

\* The props of the next React render: App changes one of its three states
\* at a time (setMode, setSensitivity, or the hook's setAudioData, which hands
\* over a new snapshot object on every tick, equal in content or not).
NextProps(v) ==
    { <<a, v.mode, v.sensitivity>> : a \in (VisSnapshots \cup {NoData}) \ ({NoData} \cap {v.audioData}) }
    \cup { <<v.audioData, m, v.sensitivity>> : m \in Modes \ {v.mode} }
    \cup { <<v.audioData, v.mode, g>> : g \in Sensitivities \ {v.sensitivity} }

\* A dependency changed: the previous effect's cleanup runs, then the effect
\* with the new props.
VisEffect(a, m, g, seed, now) ==
    /\ vis.mounted = "mounted"
    /\ <<a, m, g>> \in NextProps(vis)
    /\ Moves(a, m) => vis.moves < MaxMoves
    /\ vis' = setup(withProps(cleanup(vis), a, m, g), seed, now)
    /\ UNCHANGED <<capVars, featVars>>

\* The browser runs the pending render request r.
VisFrame(r, now) ==
    /\ r \in vis.rafQueue
    /\ Moves(vis.audioData, vis.mode) => vis.moves < MaxMoves
    /\ vis' = render([vis EXCEPT !.rafQueue = @ \ {r}], now)
    /\ UNCHANGED <<capVars, featVars>>

\* The window is resized: the registered resize listeners run.
VisResize(sz) ==
    /\ vis.resizeListeners # {}
    /\ sz # vis.win
    /\ vis' = resize([vis EXCEPT !.win = sz])
    /\ UNCHANGED <<capVars, featVars>>

\* The component is disposed: the effect's cleanup runs.
VisUnmount ==
    /\ vis.mounted = "mounted"
    /\ vis' = [cleanup(vis) EXCEPT !.mounted = "unmounted"]
    /\ UNCHANGED <<capVars, featVars>>

VisInit ==
    /\ vis = VisInit0
    /\ cap = CapInit
    /\ isActive = FALSE
    /\ hookMounted = "init"
    /\ lastOp = "none"
    /\ everGranted = FALSE
    /\ everDenied = FALSE
    /\ buf = NoData
    /\ snap = NoData

VisProps == (VisSnapshots \cup {NoData}) \X Modes \X Sensitivities

\* The random draws and clock readings an effect run or a frame consumes.
SeedsFor(m) == IF m = "cubic" /\ Len(vis.particles) = 0 THEN 1..MaxSeed ELSE {1}
ClockFor(a, m) == IF a # NoData /\ m = "pure" THEN Clock ELSE {0}

VisNext ==
    \/ \E q \in VisProps : \E seed \in SeedsFor(q[2]), now \in ClockFor(q[1], q[2]) :
          VisMount(q[1], q[2], q[3], seed, now)
    \/ \E q \in NextProps(vis) : \E seed \in SeedsFor(q[2]), now \in ClockFor(q[1], q[2]) :
          VisEffect(q[1], q[2], q[3], seed, now)
    \/ \E r \in vis.rafQueue, now \in ClockFor(vis.audioData, vis.mode) : VisFrame(r, now)
    \/ \E sz \in WindowSizes : VisResize(sz)
    \/ VisUnmount

SpecVis == VisInit /\ [][VisNext]_vars

(***************************************************************************)
(* Claims about the renderer (specification SpecVis).                      *)
(***************************************************************************)
\* min(1, bass * g) of the props on display, g the sensitivity in tenths.
GainedBass ==
    LET b == vis.audioData.bass
        p == Norm(<<Norm(b)[1] * vis.sensitivity, Norm(b)[2] * 10>>)
    IN  IF RatLE(One, p) THEN One ELSE p

AllFeaturesZero(a) ==
    RatEQ(a.volume, Zero) /\ RatEQ(a.bass, Zero) /\ RatEQ(a.mid, Zero) /\ RatEQ(a.treble, Zero)

\* C8: in pure mode with a snapshot, the flash is drawn iff min(1, bass g) > 0.5
\* and the 8 glitch lines iff min(1, bass g) > 0.8, never without the flash;
\* all features 0 draw only the fade and a zero-opacity wash; bass = 1 with
\* g = 1.0 draws both flash and lines.
C8_PureThresholds ==
    vis.frame.kind = "pure" =>
        /\ vis.audioData # NoData /\ vis.mode = "pure"
        /\ vis.frame.flash <=> RatLT(<<1, 2>>, GainedBass)
        /\ vis.frame.lines = 8 <=> RatLT(<<4, 5>>, GainedBass)
        /\ vis.frame.lines \in {0, 8}
        /\ vis.frame.lines = 8 => vis.frame.flash
        /\ vis.frame.fade = <<1, 4>>
        /\ AllFeaturesZero(vis.audioData) =>
              ~vis.frame.flash /\ vis.frame.lines = 0 /\ RatEQ(vis.frame.wash, Zero)
        /\ (RatEQ(vis.audioData.bass, One) /\ vis.sensitivity = 10) =>
              vis.frame.flash /\ vis.frame.lines = 8

\* Full-scale bass at sensitivity 0.8: the flash without the glitch lines.
C8_Witness ==
    /\ vis.frame.kind = "pure"
    /\ RatEQ(vis.audioData.bass, One)
    /\ vis.sensitivity = 8
    /\ vis.frame.flash
    /\ vis.frame.lines = 0

\* What of a particle the render loop never changes.
Identity(p) == <<p.born, p.size, p.color>>

\* C9: across effect runs and frames the particle set has 0 or 45 members, is
\* created only when it is empty and the mode is cubic, and once created keeps
\* its 45 particles: returning to cubic mode spawns nothing.
C9_ParticlesSpawnOnce ==
    /\ [](/\ Len(vis.particles) \in {0, NumParticles}
          /\ vis.spawns <= 1
          /\ Len(vis.particles) = NumParticles <=> vis.spawns = 1)
    /\ [][ /\ vis'.spawns # vis.spawns =>
                Len(vis.particles) = 0 /\ vis'.mode = "cubic"
           /\ Len(vis.particles) = NumParticles =>
                /\ Len(vis'.particles) = NumParticles
                /\ \A i \in 1..NumParticles :
                      Identity(vis'.particles[i]) = Identity(vis.particles[i]) ]_vars

\* Cubic mode was left with the particles alive and entered again, and the
\* particles have been moved by a frame.
C9_Witness ==
    /\ vis.leftCubic
    /\ vis.mode = "cubic"
    /\ Len(vis.particles) = NumParticles
    /\ vis.moves > 0

\* C10: while the Visualizer is mounted exactly one next-frame request is
\* pending (the one the effect's closure holds) and one resize listener is
\* registered; a frame rendered with no snapshot is solid black in every mode;
\* after teardown no request is pending and no resize listener remains.
C10_FreeRunsAndTearsDown ==
    /\ vis.mounted = "mounted" =>
          /\ Cardinality(vis.rafQueue) = 1
          /\ vis.animationFrameId \in vis.rafQueue
          /\ vis.resizeListeners = {vis.resize}
    /\ (vis.mounted = "mounted" /\ vis.audioData = NoData) =>
          vis.frame.kind \in {"black", "cleared"}
    /\ vis.frame.kind = "black" => vis.audioData = NoData
    /\ vis.mounted = "unmounted" =>
          vis.rafQueue = {} /\ vis.resizeListeners = {}

\* Torn down after a black frame was painted in waves mode.
C10_Witness ==
    /\ vis.mounted = "unmounted"
    /\ vis.mode = "waves"
    /\ vis.frame.kind = "black"
    /\ vis.rafQueue = {}

(***************************************************************************)
(* SpecCubic: the Visualizer held in cubic mode at sensitivity 1.0 on a    *)
(* canvas that is never resized, driven by a changing snapshot.  The same  *)
(* effect, render and cleanup as in SpecVis, with more integration steps.  *)
(***************************************************************************)
MaxSteps == 4      \* cubic-mode integration steps in one behaviour of SpecCubic

\* The component is rendered for the first time in cubic mode, in a window of
\* size sz that stays as it is.
CubicMount(a, sz, seed) ==
    /\ vis.mounted = "init"
    /\ vis' = [setup(withProps([vis EXCEPT !.win = sz], a, "cubic", 10), seed, 0)
                  EXCEPT !.mounted = "mounted"]
    /\ UNCHANGED <<capVars, featVars>>

\* The hook hands over a new snapshot: cleanup, then the effect, which renders.
CubicSnapshot(a) ==
    /\ vis.mounted = "mounted"
    /\ vis.moves < MaxSteps
    /\ vis' = setup(withProps(cleanup(vis), a, vis.mode, vis.sensitivity), 1, 0)
    /\ UNCHANGED <<capVars, featVars>>

\* The browser runs the pending render request r.
CubicFrame(r) ==
    /\ r \in vis.rafQueue
    /\ Moves(vis.audioData, vis.mode) => vis.moves < MaxSteps
    /\ vis' = render([vis EXCEPT !.rafQueue = @ \ {r}], 0)
    /\ UNCHANGED <<capVars, featVars>>

CubicNext ==
    \/ \E a \in VisSnapshots \cup {NoData}, sz \in WindowSizes, seed \in 1..MaxSeed :
          CubicMount(a, sz, seed)
    \/ \E a \in VisSnapshots : CubicSnapshot(a)
    \/ \E r \in vis.rafQueue : CubicFrame(r)

SpecCubic == VisInit /\ [][CubicNext]_vars

(***************************************************************************)
(* Claims about the cubic mode (specification SpecCubic).                  *)
(***************************************************************************)
Abs(n) == IF n < 0 THEN -n ELSE n

\* p is no further outside the w x h canvas than one maximal step, 9 |v|.
WithinOneStep(p, w, h) ==
    /\ p.x >= 0 - 9 * Abs(p.vx) * PosUnit
    /\ p.x <= (w + 9 * Abs(p.vx)) * PosUnit
    /\ p.y >= 0 - 9 * Abs(p.vy) * PosUnit
    /\ p.y <= (h + 9 * Abs(p.vy)) * PosUnit

\* C11: in cubic mode on a canvas of fixed size, for any per-tick bass values
\* in [0,1], every particle (all start inside the canvas) stays within one
\* maximal step, 9 |v|, of the canvas on both axes.
C11_ParticlesContained ==
    \A i \in 1..Len(vis.particles) : WithinOneStep(vis.particles[i], vis.width, vis.height)

====
